---- MODULE Spec2Model ----
(***************************************************************************)
(* SyncCode: the Socket.io relay server (rooms, socketRoomMap, the         *)
(* join_room / code_change / language_change / output_change / signalling  *)
(* / disconnect handlers) and the client handlers that consume its         *)
(* messages.  Room membership is the Socket.io adapter's room table, in    *)
(* which every connected socket is also a member of the room named by its  *)
(* own socket id.                                                           *)
(***************************************************************************)
EXTENDS Integers, Sequences, FiniteSets, TLC

\* ---------------------------------------------------------------- bounds
MaxConns == 2
MaxInbox == 2
MaxTimers == 2
MaxOutbox == 3
MaxLen == 3

\* ------------------------------------------------------------ value sets
SocketIds == <<"c1", "c2", "c3", "c4">>
Sockets == {SocketIds[i] : i \in 1..MaxConns}

\* Room keys are client-supplied strings: ordinary keys and strings equal to
\* a socket id.
PlainKeys == {"r1", "r2"}
Keys == PlainKeys \cup Sockets

NullDelta == [present |-> FALSE, changes |-> <<>>]
LineDelta == [present |-> TRUE,
              changes |-> <<[from |-> 1, to |-> 1, text |-> <<"x">>]>>]
Deltas == {NullDelta, LineDelta}

EditCodes == {<<"x">>}
EditLanguages == {"python"}
EditOutputs == {<<>>}
Signals == {"sdp"}

DefaultCode == <<"// Welcome to SyncCode", "// Select a language and start typing...">>
DefaultLanguage == "javascript"
DefaultOutput == <<"Ready to execute...">>
\* CODE_TEMPLATES, a text being the sequence of its lines.
Template(language) ==
  CASE language = "javascript" -> <<"// Welcome to SyncCode", "// Start typing your JavaScript...">>
    [] language = "python" -> <<"# Welcome to SyncCode", "# Start typing your Python...">>
    [] language = "java" -> <<"// Welcome to SyncCode", "", "public class Main {",
                              "  public static void main(String[] args) {",
                              "    System.out.println(\"Hello World\");", "  }", "}">>

\* The builds of the client: part_000, and the first App of part_001.
Apps == {"part_000", "part_001"}

\* What a user types: a range of the buffer replaced by a text.
TypedChanges == {[from |-> 1, to |-> 1, text |-> <<"x">>],
                 [from |-> 1, to |-> 2, text |-> <<>>]}

DefaultRoom == [code |-> DefaultCode, language |-> DefaultLanguage, output |-> DefaultOutput]

\* Payload of a message; the fields an event does not carry stay blank.
Blank == [roomId |-> "", code |-> <<>>, delta |-> NullDelta, language |-> "",
          output |-> <<>>, count |-> 0, id |-> "", callerID |-> "",
          userToSignal |-> "", signal |-> "", users |-> {}]

VARIABLES
  status,         \* socket id -> "new" | "live" | "closed"
  adapter,        \* io.sockets.adapter.rooms: room name -> set of socket ids
  rooms,          \* Map<string, RoomData>
  socketRoomMap,  \* Map<string, string>
  timers,         \* pending setTimeout callbacks of disconnect, in firing order
  inbox,          \* per socket: server messages on the wire, not yet handled
  wire,           \* the server events whose delivery is followed to the client
  userCount,      \* client state: userCount
  emitted,        \* the broadcasts of the handler that ran last, in order
  last,           \* the event that handler received
  client,         \* per socket: the App's state, refs and editor
  outbox          \* per socket: client messages on the wire, not yet handled

vars == <<status, adapter, rooms, socketRoomMap, timers, inbox, wire, userCount, emitted, last,
          client, outbox>>

\* The client side, which no server handler touches.
cvars == <<client, outbox>>

\* ----------------------------------------------------- Socket.io semantics
Truthy(roomId) == roomId # ""

\* io.to(room): every socket in the adapter's room.
IoTo(ad, room) == ad[room]

\* socket.to(room): Socket.io 4 builds the broadcast with the except set
\* {socket.id}, a set of room names, and the adapter leaves out every socket
\* that is in a room of the except set.
SocketTo(ad, s, room) == ad[room] \ ad[s]

\* socket.emit: the socket itself.
SocketEmit(s) == {s}

Bcast(rcpt, ev, p) == [rcpt |-> rcpt, ev |-> ev, p |-> p]

\* A transport that hands a recipient the newest broadcast first.
RECURSIVE EnqueueInFront(_, _, _)
EnqueueInFront(ib, bs, w) ==
  IF bs = <<>> THEN ib
  ELSE LET b == Head(bs)
           ib1 == [c \in Sockets |->
                     IF c \in b.rcpt /\ b.ev \in w
                     THEN <<[ev |-> b.ev, p |-> b.p]>> \o ib[c]
                     ELSE ib[c]]
       IN EnqueueInFront(ib1, Tail(bs), w)

\* Append the broadcasts, in order, to the inbox of each recipient.
RECURSIVE Enqueue(_, _, _)
Enqueue(ib, bs, w) ==
  IF bs = <<>> THEN ib
  ELSE LET b == Head(bs)
           ib1 == [c \in Sockets |->
                     IF c \in b.rcpt /\ b.ev \in w
                     THEN Append(ib[c], [ev |-> b.ev, p |-> b.p])
                     ELSE ib[c]]
       IN Enqueue(ib1, Tail(bs), w)

Send(bs) ==
  /\ emitted' = bs
  /\ inbox' = Enqueue(inbox, bs, wire)
  /\ \A c \in Sockets : Len(inbox'[c]) <= MaxInbox

Received(ev, s, p) == last' = [ev |-> ev, sock |-> s, p |-> p]

MapSet(m, k, v) == [x \in DOMAIN m \cup {k} |-> IF x = k THEN v ELSE m[x]]
MapDelete(m, k) == [x \in DOMAIN m \ {k} |-> m[x]]

\* Socket ids are assigned in the order SocketIds lists them.
Index(s) == CHOOSE i \in 1..MaxConns : SocketIds[i] = s

\* The socket ids assigned so far: the only ids a client can name.
KnownIds == {s \in Sockets : status[s] # "new"}

\* ------------------------------------------------------------------ Init
InitServer ==
  /\ status = [s \in Sockets |-> "new"]
  /\ adapter = [k \in Keys |-> {}]
  /\ rooms = <<>>
  /\ socketRoomMap = <<>>
  /\ timers = <<>>
  /\ inbox = [s \in Sockets |-> <<>>]
  /\ userCount = [s \in Sockets |-> 0]
  /\ emitted = <<>>
  /\ last = [ev |-> "init", sock |-> "", p |-> Blank]

\* useState / useRef initial values of App; the editor is not created yet.
InitApp(app) ==
  [app |-> app, roomId |-> "", joined |-> FALSE, language |-> "javascript",
   code |-> Template("javascript"), output |-> <<"Ready to execute...">>,
   isRunning |-> FALSE, request |-> FALSE,
   audioStream |-> FALSE, peersRef |-> <<>>, undestroyed |-> <<>>,
   isRemoteUpdate |-> FALSE, resets |-> 0, mounted |-> FALSE, buffer |-> <<>>]

InitClients(apps) ==
  /\ client \in [Sockets -> {InitApp(a) : a \in apps}]
  /\ outbox = [s \in Sockets |-> <<>>]

\* ------------------------------------------------------- server handlers
\* io.on("connection"): the socket joins the room named by its own id.
Connect(s) ==
  /\ status[s] = "new"
  /\ \A j \in 1..(Index(s) - 1) : status[SocketIds[j]] # "new"
  /\ status' = [status EXCEPT ![s] = "live"]
  /\ adapter' = [adapter EXCEPT ![s] = @ \cup {s}]
  /\ Send(<<>>)
  /\ Received("connection", s, Blank)
  /\ UNCHANGED <<rooms, socketRoomMap, timers, wire, userCount>>

\* join_room without the rooms.has(roomId) test: every join stores the defaults.
JoinRoomResets(s, roomId) ==
  /\ status[s] = "live"
  /\ LET ad == [adapter EXCEPT ![roomId] = @ \cup {s}]
         clients == ad[roomId]
         rs == MapSet(rooms, roomId, DefaultRoom)
         roomData == rs[roomId]
     IN /\ adapter' = ad
        /\ socketRoomMap' = MapSet(socketRoomMap, s, roomId)
        /\ rooms' = rs
        /\ Send(<<Bcast(IoTo(ad, roomId), "user_count", [Blank EXCEPT !.count = Cardinality(clients)]),
                  Bcast(IoTo(ad, s), "sync_state",
                        [Blank EXCEPT !.code = roomData.code, !.language = roomData.language,
                                      !.output = roomData.output])>>)
  /\ Received("join_room", s, [Blank EXCEPT !.roomId = roomId])
  /\ UNCHANGED <<status, timers, wire, userCount>>

JoinRoom(s, roomId) ==
  /\ status[s] = "live"
  /\ LET ad == [adapter EXCEPT ![roomId] = @ \cup {s}]
         clients == ad[roomId]
         rs == IF roomId \in DOMAIN rooms THEN rooms ELSE MapSet(rooms, roomId, DefaultRoom)
         roomData == rs[roomId]
     IN /\ adapter' = ad
        /\ socketRoomMap' = MapSet(socketRoomMap, s, roomId)
        /\ rooms' = rs
        /\ Send(<<Bcast(IoTo(ad, roomId), "user_count", [Blank EXCEPT !.count = Cardinality(clients)]),
                  Bcast(IoTo(ad, s), "sync_state",
                        [Blank EXCEPT !.code = roomData.code, !.language = roomData.language,
                                      !.output = roomData.output])>>)
  /\ Received("join_room", s, [Blank EXCEPT !.roomId = roomId])
  /\ UNCHANGED <<status, timers, wire, userCount>>

\* request_users without the filter on socket.id: the list is every member.
RequestUsersUnfiltered(s, roomId) ==
  /\ status[s] = "live"
  /\ LET clients == adapter[roomId]
         others == clients
     IN Send(<<Bcast(SocketEmit(s), "all_users", [Blank EXCEPT !.users = others])>>)
  /\ Received("request_users", s, [Blank EXCEPT !.roomId = roomId])
  /\ UNCHANGED <<status, adapter, rooms, socketRoomMap, timers, wire, userCount>>

RequestUsers(s, roomId) ==
  /\ status[s] = "live"
  /\ LET clients == adapter[roomId]
         others == clients \ {s}
     IN Send(<<Bcast(SocketEmit(s), "all_users", [Blank EXCEPT !.users = others])>>)
  /\ Received("request_users", s, [Blank EXCEPT !.roomId = roomId])
  /\ UNCHANGED <<status, adapter, rooms, socketRoomMap, timers, wire, userCount>>

SendingSignal(s, userToSignal, callerID, signal) ==
  /\ status[s] = "live"
  /\ Send(<<Bcast(IoTo(adapter, userToSignal), "user_joined",
                  [Blank EXCEPT !.signal = signal, !.callerID = callerID])>>)
  /\ Received("sending_signal", s,
              [Blank EXCEPT !.userToSignal = userToSignal, !.callerID = callerID, !.signal = signal])
  /\ UNCHANGED <<status, adapter, rooms, socketRoomMap, timers, wire, userCount>>

ReturningSignal(s, callerID, signal) ==
  /\ status[s] = "live"
  /\ Send(<<Bcast(IoTo(adapter, callerID), "receiving_returned_signal",
                  [Blank EXCEPT !.signal = signal, !.id = s])>>)
  /\ Received("returning_signal", s, [Blank EXCEPT !.callerID = callerID, !.signal = signal])
  /\ UNCHANGED <<status, adapter, rooms, socketRoomMap, timers, wire, userCount>>

\* code_change without the rooms.has(roomId) test: an unknown key gets an entry.
CodeChangeUpserts(s, roomId, code, delta) ==
  /\ status[s] = "live"
  /\ rooms' = MapSet(rooms, roomId,
                     [(IF roomId \in DOMAIN rooms THEN rooms[roomId] ELSE DefaultRoom)
                        EXCEPT !.code = code])
  /\ Send(<<Bcast(SocketTo(adapter, s, roomId), "receive_code",
                  [Blank EXCEPT !.code = code, !.delta = delta])>>)
  /\ Received("code_change", s, [Blank EXCEPT !.roomId = roomId, !.code = code, !.delta = delta])
  /\ UNCHANGED <<status, adapter, socketRoomMap, timers, wire, userCount>>

\* code_change that writes only while the room still holds the default content.
CodeChangeKeepsFirst(s, roomId, code, delta) ==
  /\ status[s] = "live"
  /\ IF roomId \in DOMAIN rooms
     THEN /\ rooms' = [rooms EXCEPT ![roomId].code =
                         IF @ = DefaultCode THEN code ELSE @]
          /\ Send(<<Bcast(SocketTo(adapter, s, roomId), "receive_code",
                          [Blank EXCEPT !.code = code, !.delta = delta])>>)
     ELSE /\ rooms' = rooms
          /\ Send(<<>>)
  /\ Received("code_change", s, [Blank EXCEPT !.roomId = roomId, !.code = code, !.delta = delta])
  /\ UNCHANGED <<status, adapter, socketRoomMap, timers, wire, userCount>>

CodeChange(s, roomId, code, delta) ==
  /\ status[s] = "live"
  /\ IF roomId \in DOMAIN rooms
     THEN /\ rooms' = [rooms EXCEPT ![roomId].code = code]
          /\ Send(<<Bcast(SocketTo(adapter, s, roomId), "receive_code",
                          [Blank EXCEPT !.code = code, !.delta = delta])>>)
     ELSE /\ rooms' = rooms
          /\ Send(<<>>)
  /\ Received("code_change", s, [Blank EXCEPT !.roomId = roomId, !.code = code, !.delta = delta])
  /\ UNCHANGED <<status, adapter, socketRoomMap, timers, wire, userCount>>

\* language_change that also puts the language's template into the content.
LanguageChangeResetsCode(s, roomId, language) ==
  /\ status[s] = "live"
  /\ IF roomId \in DOMAIN rooms
     THEN /\ rooms' = [rooms EXCEPT ![roomId].language = language,
                                    ![roomId].code = Template(language)]
          /\ Send(<<Bcast(SocketTo(adapter, s, roomId), "receive_language",
                          [Blank EXCEPT !.language = language])>>)
     ELSE /\ rooms' = rooms
          /\ Send(<<>>)
  /\ Received("language_change", s, [Blank EXCEPT !.roomId = roomId, !.language = language])
  /\ UNCHANGED <<status, adapter, socketRoomMap, timers, wire, userCount>>

LanguageChange(s, roomId, language) ==
  /\ status[s] = "live"
  /\ IF roomId \in DOMAIN rooms
     THEN /\ rooms' = [rooms EXCEPT ![roomId].language = language]
          /\ Send(<<Bcast(SocketTo(adapter, s, roomId), "receive_language",
                          [Blank EXCEPT !.language = language])>>)
     ELSE /\ rooms' = rooms
          /\ Send(<<>>)
  /\ Received("language_change", s, [Blank EXCEPT !.roomId = roomId, !.language = language])
  /\ UNCHANGED <<status, adapter, socketRoomMap, timers, wire, userCount>>

OutputChange(s, roomId, output) ==
  /\ status[s] = "live"
  /\ IF roomId \in DOMAIN rooms
     THEN /\ rooms' = [rooms EXCEPT ![roomId].output = output]
          /\ Send(<<Bcast(SocketTo(adapter, s, roomId), "receive_output",
                          [Blank EXCEPT !.output = output])>>)
     ELSE /\ rooms' = rooms
          /\ Send(<<>>)
  /\ Received("output_change", s, [Blank EXCEPT !.roomId = roomId, !.output = output])
  /\ UNCHANGED <<status, adapter, socketRoomMap, timers, wire, userCount>>

\* disconnect without socketRoomMap.delete: the entry of a closed socket stays.
DisconnectKeepsEntry(s) ==
  /\ status[s] = "live"
  /\ status' = [status EXCEPT ![s] = "closed"]
  /\ adapter' = [k \in Keys |-> adapter[k] \ {s}]
  /\ IF s \in DOMAIN socketRoomMap /\ Truthy(socketRoomMap[s])
     THEN /\ Len(timers) < MaxTimers
          /\ socketRoomMap' = socketRoomMap
          /\ timers' = Append(timers, [sock |-> s, roomId |-> socketRoomMap[s]])
     ELSE UNCHANGED <<socketRoomMap, timers>>
  /\ emitted' = <<>>
  /\ inbox' = [inbox EXCEPT ![s] = <<>>]
  /\ Received("disconnect", s, Blank)
  /\ UNCHANGED <<rooms, wire, userCount>>

\* The transport closes: Socket.io removes the socket from every room, then
\* runs the "disconnect" handler, which defers the cleanup by a timer.
Disconnect(s) ==
  /\ status[s] = "live"
  /\ status' = [status EXCEPT ![s] = "closed"]
  /\ adapter' = [k \in Keys |-> adapter[k] \ {s}]
  /\ IF s \in DOMAIN socketRoomMap /\ Truthy(socketRoomMap[s])
     THEN /\ Len(timers) < MaxTimers
          /\ socketRoomMap' = MapDelete(socketRoomMap, s)
          /\ timers' = Append(timers, [sock |-> s, roomId |-> socketRoomMap[s]])
     ELSE UNCHANGED <<socketRoomMap, timers>>
  /\ emitted' = <<>>
  /\ inbox' = [inbox EXCEPT ![s] = <<>>]
  /\ Received("disconnect", s, Blank)
  /\ UNCHANGED <<rooms, wire, userCount>>

\* The "disconnect" handler run once more for a socket that is already
\* closed: the socket is in no adapter room any more.
DisconnectAgain(s) ==
  /\ status[s] = "closed"
  /\ IF s \in DOMAIN socketRoomMap /\ Truthy(socketRoomMap[s])
     THEN /\ Len(timers) < MaxTimers
          /\ socketRoomMap' = MapDelete(socketRoomMap, s)
          /\ timers' = Append(timers, [sock |-> s, roomId |-> socketRoomMap[s]])
     ELSE UNCHANGED <<socketRoomMap, timers>>
  /\ emitted' = <<>>
  /\ Received("disconnect", s, Blank)
  /\ UNCHANGED <<status, adapter, rooms, inbox, wire, userCount>>

\* A cleanup that deletes the room without looking at its size.
DisconnectTimeoutDeletes ==
  /\ timers # <<>>
  /\ LET t == Head(timers)
         count == Cardinality(adapter[t.roomId])
     IN /\ Send(<<Bcast(IoTo(adapter, t.roomId), "user_count", [Blank EXCEPT !.count = count]),
                  Bcast(SocketTo(adapter, t.sock, t.roomId), "user_left", [Blank EXCEPT !.id = t.sock])>>)
        /\ rooms' = MapDelete(rooms, t.roomId)
        /\ Received("disconnect_timeout", t.sock, [Blank EXCEPT !.roomId = t.roomId])
  /\ timers' = Tail(timers)
  /\ UNCHANGED <<status, adapter, socketRoomMap, wire, userCount>>

\* The setTimeout callback of the disconnect handler.
DisconnectTimeout ==
  /\ timers # <<>>
  /\ LET t == Head(timers)
         count == Cardinality(adapter[t.roomId])
     IN /\ Send(<<Bcast(IoTo(adapter, t.roomId), "user_count", [Blank EXCEPT !.count = count]),
                  Bcast(SocketTo(adapter, t.sock, t.roomId), "user_left", [Blank EXCEPT !.id = t.sock])>>)
        /\ rooms' = IF count = 0 THEN MapDelete(rooms, t.roomId) ELSE rooms
        /\ Received("disconnect_timeout", t.sock, [Blank EXCEPT !.roomId = t.roomId])
  /\ timers' = Tail(timers)
  /\ UNCHANGED <<status, adapter, socketRoomMap, wire, userCount>>

\* ------------------------------------------------------- client handlers
\* socket.on("user_count", (cnt) => setUserCount(cnt))
OnUserCount(c) ==
  /\ status[c] = "live"
  /\ inbox[c] # <<>>
  /\ Head(inbox[c]).ev = "user_count"
  /\ userCount' = [userCount EXCEPT ![c] = Head(inbox[c]).p.count]
  /\ inbox' = [inbox EXCEPT ![c] = Tail(@)]
  /\ emitted' = <<>>
  /\ Received("user_count", c, Head(inbox[c]).p)
  /\ UNCHANGED <<status, adapter, rooms, socketRoomMap, timers, wire>>

\* A client message put on the wire by socket.emit.
Msg(ev, p) == [ev |-> ev, p |-> p]

Emit(c, msgs) ==
  /\ outbox' = [outbox EXCEPT ![c] = @ \o msgs]
  /\ Len(outbox'[c]) <= MaxOutbox

\* A step of the client alone: the server's state stays as it is.
ClientStep(ev, c, p) ==
  /\ emitted' = <<>>
  /\ Received(ev, c, p)
  /\ UNCHANGED <<status, adapter, rooms, socketRoomMap, timers, wire, userCount>>

\* The server takes the next message of socket s off the wire.
Taken(s, ev) ==
  /\ outbox[s] # <<>>
  /\ Head(outbox[s]).ev = ev
  /\ outbox' = [outbox EXCEPT ![s] = Tail(@)]
  /\ UNCHANGED client

ServeJoinRoom(s) ==
  Taken(s, "join_room") /\ JoinRoom(s, Head(outbox[s]).p.roomId)

ServeCodeChange(s) ==
  Taken(s, "code_change") /\
    LET p == Head(outbox[s]).p IN CodeChange(s, p.roomId, p.code, p.delta)

ServeLanguageChange(s) ==
  Taken(s, "language_change") /\
    LET p == Head(outbox[s]).p IN LanguageChange(s, p.roomId, p.language)

ServeRequestUsers(s) ==
  Taken(s, "request_users") /\ RequestUsers(s, Head(outbox[s]).p.roomId)

ServeSendingSignal(s) ==
  Taken(s, "sending_signal") /\
    LET p == Head(outbox[s]).p IN SendingSignal(s, p.userToSignal, p.callerID, p.signal)

ServeReturningSignal(s) ==
  Taken(s, "returning_signal") /\
    LET p == Head(outbox[s]).p IN ReturningSignal(s, p.callerID, p.signal)

ServeOutputChange(s) ==
  Taken(s, "output_change") /\
    LET p == Head(outbox[s]).p IN OutputChange(s, p.roomId, p.output)

\* ---------------------------------------------------------- Monaco editor
Clamp(x, lo, hi) == IF x < lo THEN lo ELSE IF x > hi THEN hi ELSE x

\* One edit operation: the lines from..to-1 are replaced by text; the range is
\* validated against the buffer first.
ApplyChange(buf, ch) ==
  LET f == Clamp(ch.from, 1, Len(buf) + 1)
      u == Clamp(ch.to, f, Len(buf) + 1)
  IN SubSeq(buf, 1, f - 1) \o ch.text \o SubSeq(buf, u, Len(buf))

RECURSIVE ApplyChanges(_, _)
ApplyChanges(buf, changes) ==
  IF changes = <<>> THEN buf
  ELSE ApplyChanges(ApplyChange(buf, Head(changes)), Tail(changes))

\* The listener of editor.onDidChangeModelContent, run by the editor inside
\* every change of the buffer: cl is the App after the change, the result is
\* the App and the messages emitted.
onDidChangeModelContent(cl, changes) ==
  IF cl.isRemoteUpdate
  THEN [cl |-> cl, out |-> <<>>]
  ELSE LET currentCode == cl.buffer
       IN [cl |-> [cl EXCEPT !.code = currentCode],
           out |-> <<Msg("code_change",
                         [Blank EXCEPT !.roomId = cl.roomId,
                                       !.delta = [present |-> TRUE, changes |-> changes],
                                       !.code = currentCode])>>]

\* setValue that keeps the old lines in front of the new value.
setValueAppends(cl, value) ==
  onDidChangeModelContent([cl EXCEPT !.buffer = cl.buffer \o value],
                          <<[from |-> 1, to |-> Len(cl.buffer) + 1, text |-> value]>>)

\* editor.setValue: the whole buffer is replaced and the listener runs.
setValue(cl, value) ==
  onDidChangeModelContent([cl EXCEPT !.buffer = value],
                          <<[from |-> 1, to |-> Len(cl.buffer) + 1, text |-> value]>>)

\* editor.executeEdits: the edits are applied and the listener runs.
executeEdits(cl, changes) ==
  IF changes = <<>> THEN [cl |-> cl, out |-> <<>>]
  ELSE onDidChangeModelContent([cl EXCEPT !.buffer = ApplyChanges(cl.buffer, changes)], changes)

\* ------------------------------------------------------------ client: App
joinRoom(c, id) ==
  /\ status[c] = "live"
  /\ ~client[c].joined
  /\ id # ""
  /\ client' = [client EXCEPT ![c].roomId = id, ![c].joined = TRUE]
  /\ Emit(c, <<Msg("join_room", [Blank EXCEPT !.roomId = id])>>)
  /\ ClientStep("joinRoom", c, [Blank EXCEPT !.roomId = id])
  /\ UNCHANGED inbox

\* <Editor defaultValue={code} onMount={handleEditorDidMount}>
handleEditorDidMount(c) ==
  /\ client[c].joined
  /\ ~client[c].mounted
  /\ client' = [client EXCEPT ![c].mounted = TRUE, ![c].buffer = client[c].code]
  /\ ClientStep("editorDidMount", c, Blank)
  /\ UNCHANGED <<inbox, outbox>>

\* The language select: language_change is emitted, the editor is given the
\* template (which runs the listener), and a code_change without delta follows.
handleLanguageChange(c, newLang) ==
  LET cl == [client[c] EXCEPT !.language = newLang]
      newCode == Template(newLang)
      r == IF cl.mounted THEN setValue(cl, newCode) ELSE [cl |-> cl, out |-> <<>>]
  IN /\ status[c] = "live"
     /\ client[c].joined
     /\ newLang # client[c].language
     /\ client' = [client EXCEPT ![c] = [r.cl EXCEPT !.code = newCode]]
     /\ Emit(c, <<Msg("language_change", [Blank EXCEPT !.roomId = cl.roomId, !.language = newLang])>>
                \o r.out
                \o <<Msg("code_change", [Blank EXCEPT !.roomId = cl.roomId, !.code = newCode,
                                                      !.delta = NullDelta])>>)
     /\ ClientStep("handleLanguageChange", c, [Blank EXCEPT !.language = newLang])
     /\ UNCHANGED inbox

\* The user edits the buffer: the editor applies the change and runs the
\* listener.
UserTypes(c, ch) ==
  LET cl == client[c]
      buf == ApplyChange(cl.buffer, ch)
      r == onDidChangeModelContent([cl EXCEPT !.buffer = buf], <<ch>>)
  IN /\ status[c] = "live"
     /\ cl.mounted
     /\ ch.to <= Len(cl.buffer) + 1
     /\ buf # cl.buffer
     /\ Len(buf) <= MaxLen
     /\ client' = [client EXCEPT ![c] = r.cl]
     /\ Emit(c, r.out)
     /\ ClientStep("type", c, [Blank EXCEPT !.code = buf,
                                            !.delta = [present |-> TRUE, changes |-> <<ch>>]])
     /\ UNCHANGED inbox

\* The client takes the next server message off the wire.
Arrived(c, ev) ==
  /\ status[c] = "live"
  /\ inbox[c] # <<>>
  /\ Head(inbox[c]).ev = ev
  /\ inbox' = [inbox EXCEPT ![c] = Tail(@)]

OnSyncState(c) ==
  LET state == Head(inbox[c]).p
      cl0 == [client[c] EXCEPT !.isRemoteUpdate = TRUE]
      r == IF cl0.mounted THEN setValue(cl0, state.code) ELSE [cl |-> cl0, out |-> <<>>]
      cl1 == [r.cl EXCEPT !.code = state.code, !.language = state.language,
                          !.output = state.output, !.resets = @ + 1]
  IN /\ Arrived(c, "sync_state")
     /\ cl1.resets <= MaxTimers
     /\ client' = [client EXCEPT ![c] = cl1]
     /\ Emit(c, r.out)
     /\ ClientStep("sync_state", c, state)

\* receive_code without isRemoteUpdate.current = true before the buffer change.
OnReceiveCodeUnflagged(c) ==
  LET payload == Head(inbox[c]).p
      cl0 == client[c]
      rd == executeEdits(cl0, payload.delta.changes)
      rf == setValue(cl0, payload.code)
      r == IF ~client[c].mounted THEN [cl |-> client[c], out |-> <<>>]
           ELSE IF payload.delta.present
           THEN [cl |-> [rd.cl EXCEPT !.code = rd.cl.buffer, !.isRemoteUpdate = FALSE],
                 out |-> rd.out]
           ELSE [cl |-> [rf.cl EXCEPT !.code = payload.code, !.resets = @ + 1],
                 out |-> rf.out]
  IN /\ Arrived(c, "receive_code")
     /\ r.cl.resets <= MaxTimers
     /\ Len(r.cl.buffer) <= MaxLen
     /\ client' = [client EXCEPT ![c] = r.cl]
     /\ Emit(c, r.out)
     /\ ClientStep("receive_code", c, payload)

OnReceiveCode(c) ==
  LET payload == Head(inbox[c]).p
      cl0 == [client[c] EXCEPT !.isRemoteUpdate = TRUE]
      rd == executeEdits(cl0, payload.delta.changes)
      rf == setValue(cl0, payload.code)
      r == IF ~client[c].mounted THEN [cl |-> client[c], out |-> <<>>]
           ELSE IF payload.delta.present
           THEN [cl |-> [rd.cl EXCEPT !.code = rd.cl.buffer, !.isRemoteUpdate = FALSE],
                 out |-> rd.out]
           ELSE [cl |-> [rf.cl EXCEPT !.code = payload.code, !.resets = @ + 1],
                 out |-> rf.out]
  IN /\ Arrived(c, "receive_code")
     /\ r.cl.resets <= MaxTimers
     /\ Len(r.cl.buffer) <= MaxLen
     /\ client' = [client EXCEPT ![c] = r.cl]
     /\ Emit(c, r.out)
     /\ ClientStep("receive_code", c, payload)

\* setTimeout(() => { isRemoteUpdate.current = false; }, ...)
IsRemoteUpdateTimeout(c) ==
  /\ client[c].resets > 0
  /\ client' = [client EXCEPT ![c].resets = @ - 1, ![c].isRemoteUpdate = FALSE]
  /\ ClientStep("isRemoteUpdateTimeout", c, Blank)
  /\ UNCHANGED <<inbox, outbox>>

OnReceiveLanguage(c) ==
  /\ Arrived(c, "receive_language")
  /\ client' = [client EXCEPT ![c].language = Head(inbox[c]).p.language]
  /\ ClientStep("receive_language", c, Head(inbox[c]).p)
  /\ UNCHANGED outbox

OnReceiveOutput(c) ==
  /\ Arrived(c, "receive_output")
  /\ client' = [client EXCEPT ![c].output = Head(inbox[c]).p.output]
  /\ ClientStep("receive_output", c, Head(inbox[c]).p)
  /\ UNCHANGED outbox

\* The Clear button of the output panel.
ClearClick(c) ==
  /\ status[c] = "live"
  /\ client[c].joined
  /\ client' = [client EXCEPT ![c].output = <<>>]
  /\ Emit(c, IF client[c].app = "part_000"
             THEN <<Msg("output_change", [Blank EXCEPT !.roomId = client[c].roomId, !.output = <<>>])>>
             ELSE <<>>)
  /\ ClientStep("clear", c, Blank)
  /\ UNCHANGED inbox

\* runCode up to its await: the indicator is set, "Running..." is shown and
\* sent to the room, and the request to the execution service is posted.
runCode(c) ==
  /\ status[c] = "live"
  /\ client[c].joined
  /\ ~client[c].isRunning
  /\ client' = [client EXCEPT ![c].isRunning = TRUE, ![c].output = <<"Running...">>,
                               ![c].request = TRUE]
  /\ Emit(c, <<Msg("output_change", [Blank EXCEPT !.roomId = client[c].roomId,
                                                  !.output = <<"Running...">>])>>)
  /\ ClientStep("runCode", c, Blank)
  /\ UNCHANGED inbox

\* The request resolves: lines is res.data.run.output split at the newlines.
runCodeResolved(c, lines) ==
  /\ client[c].request
  /\ client' = [client EXCEPT ![c].isRunning = FALSE, ![c].output = lines,
                               ![c].request = FALSE]
  /\ Emit(c, <<Msg("output_change", [Blank EXCEPT !.roomId = client[c].roomId,
                                                  !.output = lines])>>)
  /\ ClientStep("runCodeResolved", c, [Blank EXCEPT !.output = lines])
  /\ UNCHANGED inbox

\* A catch branch that also reports the failure to the room.
runCodeRejectedShared(c) ==
  /\ client[c].request
  /\ client' = [client EXCEPT ![c].isRunning = FALSE, ![c].request = FALSE,
                               ![c].output = <<"Error executing code.">>]
  /\ Emit(c, <<Msg("output_change", [Blank EXCEPT !.roomId = client[c].roomId,
                                                  !.output = <<"Error executing code.">>])>>)
  /\ ClientStep("runCodeRejected", c, Blank)
  /\ UNCHANGED inbox

\* The request fails or its response has no run.output: catch, then finally.
runCodeRejected(c) ==
  /\ client[c].request
  /\ client' = [client EXCEPT ![c].isRunning = FALSE, ![c].request = FALSE,
                               ![c].output = <<"Error executing code.">>]
  /\ ClientStep("runCodeRejected", c, Blank)
  /\ UNCHANGED <<inbox, outbox>>

\* ---------------------------------------------------------- client: voice
\* A peer entry of peersRef: the remote id, whether this side created the
\* peer as initiator, and whether the peer has been given the remote signal.
PeerNode(peerID, initiator, signalled) ==
  [peerID |-> peerID, initiator |-> initiator, signalled |-> signalled]

\* The ids of an array in the order the array lists them.
RECURSIVE ArrayOf(_)
ArrayOf(ids) ==
  IF ids = {} THEN <<>>
  ELSE LET u == CHOOSE x \in ids : \A y \in ids : Index(x) <= Index(y)
       IN <<u>> \o ArrayOf(ids \ {u})

\* peersRef.current.find(p => p.peerID === id): the index of the first entry
\* for id, 0 when there is none.
FindPeer(prs, id) ==
  IF \E i \in 1..Len(prs) : prs[i].peerID = id
  THEN CHOOSE i \in 1..Len(prs) :
         prs[i].peerID = id /\ \A j \in 1..(i - 1) : prs[j].peerID # id
  ELSE 0

\* startVoice once getUserMedia has resolved: the stream is kept and the
\* members of the room are asked for.
startVoice(c) ==
  /\ status[c] = "live"
  /\ client[c].joined
  /\ ~client[c].audioStream
  /\ client' = [client EXCEPT ![c].audioStream = TRUE]
  /\ Emit(c, <<Msg("request_users", [Blank EXCEPT !.roomId = client[c].roomId])>>)
  /\ ClientStep("startVoice", c, Blank)
  /\ UNCHANGED inbox

\* all_users: one initiating peer per listed user; each peer's "signal" event
\* sends the offer.
OnAllUsers(c) ==
  LET users == ArrayOf(Head(inbox[c]).p.users)
      made == [i \in 1..Len(users) |-> PeerNode(users[i], TRUE, FALSE)]
      offers == [i \in 1..Len(users) |->
                   Msg("sending_signal", [Blank EXCEPT !.userToSignal = users[i],
                                                       !.callerID = c, !.signal = "offer"])]
  IN /\ Arrived(c, "all_users")
     /\ IF client[c].audioStream
        THEN /\ client' = [client EXCEPT ![c].peersRef = @ \o made]
             /\ Emit(c, offers)
        ELSE UNCHANGED <<client, outbox>>
     /\ ClientStep("all_users", c, Head(inbox[c]).p)

\* user_joined: a responding peer for the caller, given the offer; its
\* "signal" event sends the answer.
OnUserJoined(c) ==
  LET payload == Head(inbox[c]).p
  IN /\ Arrived(c, "user_joined")
     /\ IF client[c].audioStream
        THEN /\ client' = [client EXCEPT ![c].peersRef =
                             Append(@, PeerNode(payload.callerID, FALSE, TRUE))]
             /\ Emit(c, <<Msg("returning_signal", [Blank EXCEPT !.signal = "answer",
                                                                !.callerID = payload.callerID])>>)
        ELSE UNCHANGED <<client, outbox>>
     /\ ClientStep("user_joined", c, payload)

\* receiving_returned_signal: the first entry for the sender gets the answer.
OnReceivingReturnedSignal(c) ==
  LET payload == Head(inbox[c]).p
      i == FindPeer(client[c].peersRef, payload.id)
  IN /\ Arrived(c, "receiving_returned_signal")
     /\ client' = IF i = 0 THEN client
                  ELSE [client EXCEPT ![c].peersRef[i].signalled = TRUE]
     /\ ClientStep("receiving_returned_signal", c, payload)
     /\ UNCHANGED outbox

\* user_left: the first entry found for the id is destroyed, every entry for
\* the id is filtered out; the peers filtered out without destroy() stay
\* alive, kept in undestroyed.
OnUserLeft(c) ==
  LET id == Head(inbox[c]).p.id
      prs == client[c].peersRef
      i == FindPeer(prs, id)
      Other(e) == e.peerID # id
      rest == [j \in 1..Len(prs) |-> IF j = i THEN PeerNode("", FALSE, FALSE) ELSE prs[j]]
      Same(e) == e.peerID = id
  IN /\ Arrived(c, "user_left")
     /\ client' = [client EXCEPT ![c].peersRef = SelectSeq(prs, Other),
                                  ![c].undestroyed = @ \o SelectSeq(rest, Same)]
     /\ ClientStep("user_left", c, Head(inbox[c]).p)
     /\ UNCHANGED outbox

\* -------------------------------------------------------- specifications
\* Membership and member counts: joins, disconnects, the deferred cleanup and
\* the delivery of user_count.
InitCount == InitServer /\ wire = {"user_count"} /\ InitClients({"part_000"})

NextCount ==
  \/ \E s \in Sockets : Connect(s) /\ UNCHANGED cvars
  \/ \E s \in Sockets, r \in PlainKeys : JoinRoom(s, r) /\ UNCHANGED cvars
  \/ \E s \in Sockets : Disconnect(s) /\ UNCHANGED cvars
  \/ DisconnectTimeout /\ UNCHANGED cvars
  \/ \E c \in Sockets : OnUserCount(c) /\ UNCHANGED cvars

SpecCount == InitCount /\ [][NextCount]_vars

\* Room state: joins, edits, language and output changes, disconnects.
InitEdit == InitServer /\ wire = {} /\ InitClients({"part_000"})

NextEdit ==
  \/ \E s \in Sockets : Connect(s) /\ UNCHANGED cvars
  \/ \E s \in Sockets, r \in PlainKeys : JoinRoom(s, r) /\ UNCHANGED cvars
  \/ \E s \in Sockets, r \in PlainKeys, code \in EditCodes, delta \in Deltas : CodeChange(s, r, code, delta) /\ UNCHANGED cvars
  \/ \E s \in Sockets, r \in PlainKeys, language \in EditLanguages : LanguageChange(s, r, language) /\ UNCHANGED cvars
  \/ \E s \in Sockets, r \in PlainKeys, output \in EditOutputs : OutputChange(s, r, output) /\ UNCHANGED cvars
  \/ \E s \in Sockets : Disconnect(s) /\ UNCHANGED cvars
  \/ DisconnectTimeout /\ UNCHANGED cvars

SpecEdit == InitEdit /\ [][NextEdit]_vars

\* Room keys that are socket ids: a client joins the room named by another
\* socket's id (a socket is already in the room named by its own id).
IdKeys == {"r1"} \cup KnownIds

InitIdKeys == InitServer /\ wire = {} /\ InitClients({"part_000"})

NextIdKeys ==
  \/ \E s \in Sockets : Connect(s) /\ UNCHANGED cvars
  \/ \E s \in Sockets : \E r \in IdKeys \ {s} : JoinRoom(s, r) /\ UNCHANGED cvars
  \/ \E s \in Sockets, r \in IdKeys, code \in EditCodes, delta \in Deltas : CodeChange(s, r, code, delta) /\ UNCHANGED cvars
  \/ \E s \in Sockets : Disconnect(s) /\ UNCHANGED cvars
  \/ DisconnectTimeout /\ UNCHANGED cvars

SpecIdKeys == InitIdKeys /\ [][NextIdKeys]_vars

\* Signalling relay: joins, peer-list requests, offers, answers, disconnects.
InitRelay == InitServer /\ wire = {} /\ InitClients({"part_000"})

NextRelay ==
  \/ \E s \in Sockets : Connect(s) /\ UNCHANGED cvars
  \/ \E s \in Sockets : \E r \in IdKeys \ {s} : JoinRoom(s, r) /\ UNCHANGED cvars
  \/ \E s \in Sockets, r \in IdKeys : RequestUsers(s, r) /\ UNCHANGED cvars
  \/ \E s \in Sockets, u \in KnownIds, c \in KnownIds, sig \in Signals : SendingSignal(s, u, c, sig) /\ UNCHANGED cvars
  \/ \E s \in Sockets, c \in KnownIds, sig \in Signals : ReturningSignal(s, c, sig) /\ UNCHANGED cvars
  \/ \E s \in Sockets : Disconnect(s) /\ UNCHANGED cvars
  \/ DisconnectTimeout /\ UNCHANGED cvars

SpecRelay == InitRelay /\ [][NextRelay]_vars

\* Leaving: joins, disconnects, a disconnect handled a second time, and the
\* deferred cleanup.
InitLeave == InitServer /\ wire = {} /\ InitClients({"part_000"})

NextLeave ==
  \/ \E s \in Sockets : Connect(s) /\ UNCHANGED cvars
  \/ \E s \in Sockets, r \in PlainKeys : JoinRoom(s, r) /\ UNCHANGED cvars
  \/ \E s \in Sockets : Disconnect(s) /\ UNCHANGED cvars
  \/ \E s \in Sockets : DisconnectAgain(s) /\ UNCHANGED cvars
  \/ DisconnectTimeout /\ UNCHANGED cvars

SpecLeave == InitLeave /\ [][NextLeave]_vars

\* Editing through the client.  The first connection runs the App and joins
\* the room; the other connections send code_change for the room directly,
\* which the server takes from any connection.  One room key; the App's user
\* acts again only after the server has taken the App's earlier messages.
JoinKeys == {"r1"}
AppSockets == {SocketIds[1]}

InitEcho == InitServer /\ wire = {"sync_state", "receive_code"} /\ InitClients({"part_000"})

NextEcho ==
  \/ \E s \in Sockets : Connect(s) /\ UNCHANGED cvars
  \/ \E c \in AppSockets, id \in JoinKeys : joinRoom(c, id)
  \/ \E c \in AppSockets : handleEditorDidMount(c)
  \/ \E c \in AppSockets, ch \in TypedChanges : outbox[c] = <<>> /\ UserTypes(c, ch)
  \/ \E s \in Sockets : ServeJoinRoom(s)
  \/ \E s \in Sockets : ServeCodeChange(s)
  \/ \E s \in Sockets \ AppSockets, r \in JoinKeys, code \in EditCodes, delta \in Deltas :
       CodeChange(s, r, code, delta) /\ UNCHANGED cvars
  \/ \E c \in AppSockets : OnSyncState(c)
  \/ \E c \in AppSockets : OnReceiveCode(c)
  \/ \E c \in AppSockets : IsRemoteUpdateTimeout(c)

SpecEcho == InitEcho /\ [][NextEcho]_vars

\* The output panel: every connection runs one of the Apps, joins the room
\* and clears the output; sync_state and receive_output are delivered.
InitOutput == InitServer /\ wire = {"sync_state", "receive_output"} /\ InitClients(Apps)

NextOutput ==
  \/ \E s \in Sockets : Connect(s) /\ UNCHANGED cvars
  \/ \E c \in Sockets, id \in JoinKeys : joinRoom(c, id)
  \/ \E c \in Sockets : outbox[c] = <<>> /\ ClearClick(c)
  \/ \E s \in Sockets : ServeJoinRoom(s)
  \/ \E s \in Sockets : ServeOutputChange(s)
  \/ \E c \in Sockets : OnSyncState(c)
  \/ \E c \in Sockets : OnReceiveOutput(c)
  \/ \E c \in Sockets : IsRemoteUpdateTimeout(c)

SpecOutput == InitOutput /\ [][NextOutput]_vars

\* Forwarding order: the first two connections join the room and send edits,
\* language and output changes for it, and their handlers take the forwards
\* off the wire.
Members == {SocketIds[1], SocketIds[2]}

InitOrder ==
  /\ InitServer
  /\ wire = {"receive_code", "receive_language", "receive_output"}
  /\ InitClients({"part_000"})

NextOrder ==
  \/ \E s \in Sockets : Connect(s) /\ UNCHANGED cvars
  \/ \E s \in Members, r \in JoinKeys : JoinRoom(s, r) /\ UNCHANGED cvars
  \/ \E s \in Members, r \in JoinKeys, code \in EditCodes, delta \in {LineDelta} :
       CodeChange(s, r, code, delta) /\ UNCHANGED cvars
  \/ \E s \in Members, r \in JoinKeys, language \in EditLanguages :
       LanguageChange(s, r, language) /\ UNCHANGED cvars
  \/ \E s \in Members, r \in JoinKeys, output \in EditOutputs :
       OutputChange(s, r, output) /\ UNCHANGED cvars
  \/ \E c \in Sockets : OnReceiveCode(c)
  \/ \E c \in Sockets : OnReceiveLanguage(c)
  \/ \E c \in Sockets : OnReceiveOutput(c)

SpecOrder == InitOrder /\ [][NextOrder]_vars

\* The store under competing writers: every connection sends full contents
\* and language names for the room, members come and go, and the forwards
\* stay on the wire until the member's handler takes them.
StoreCodes == {<<"x">>, <<"y">>}

\* The language of a language_change is whatever string the client sent.
Languages == {"javascript", "python", "java"}
WireLanguages == {"python", "ruby"}

InitStore ==
  /\ InitServer
  /\ wire = {"receive_code"}
  /\ InitClients({"part_000"})

NextStore ==
  \/ \E s \in Sockets : Connect(s) /\ UNCHANGED cvars
  \/ \E s \in Sockets, r \in JoinKeys : JoinRoom(s, r) /\ UNCHANGED cvars
  \/ \E s \in Sockets, r \in JoinKeys, code \in StoreCodes :
       CodeChange(s, r, code, NullDelta) /\ UNCHANGED cvars
  \/ \E s \in Sockets, r \in JoinKeys, language \in WireLanguages :
       LanguageChange(s, r, language) /\ UNCHANGED cvars
  \/ \E c \in Sockets : OnReceiveCode(c)
  \/ \E s \in Sockets : Disconnect(s) /\ UNCHANGED cvars
  \/ DisconnectTimeout /\ UNCHANGED cvars

SpecStore == InitStore /\ [][NextStore]_vars

\* A writer and a reader in one room: both Apps join through the server and
\* mount their editors; only the first one types, and only when it has
\* handled everything sent to it and its isRemoteUpdate timers have fired.
Writer == SocketIds[1]
Reader == SocketIds[2]

InitMiss ==
  /\ InitServer
  /\ wire = {"sync_state", "receive_code"}
  /\ InitClients({"part_000"})

NextMiss ==
  \/ \E s \in Sockets : Connect(s) /\ UNCHANGED cvars
  \/ \E c \in Members, id \in JoinKeys : joinRoom(c, id)
  \/ \E c \in Members : handleEditorDidMount(c)
  \/ \E ch \in TypedChanges :
       /\ inbox[Writer] = <<>> /\ outbox[Writer] = <<>>
       /\ client[Writer].code = client[Writer].buffer
       /\ client[Writer].resets = 0
       /\ UserTypes(Writer, ch)
  \/ \E s \in Members : ServeJoinRoom(s)
  \/ \E s \in Members : ServeCodeChange(s)
  \/ \E c \in Members : OnSyncState(c)
  \/ \E c \in Members : OnReceiveCode(c)
  \/ \E c \in Members : IsRemoteUpdateTimeout(c)

SpecMiss == InitMiss /\ [][NextMiss]_vars

\* Two Apps in one room: both join through the server and mount their
\* editors; then each types a line of its own, the first on line 1 and the
\* second on line 2, once it has handled everything sent to it and its
\* isRemoteUpdate timers have fired.
OwnChange(c) ==
  IF c = Writer THEN [from |-> 1, to |-> 2, text |-> <<"x">>]
  ELSE [from |-> 2, to |-> 3, text |-> <<"y">>]

InitPair ==
  /\ InitServer
  /\ wire = {"sync_state", "receive_code"}
  /\ InitClients({"part_000"})

NextPair ==
  \/ \E s \in Sockets : Connect(s) /\ UNCHANGED cvars
  \/ \E c \in Members, id \in JoinKeys : joinRoom(c, id)
  \/ \E c \in Members : handleEditorDidMount(c)
  \/ \E c \in Members :
       /\ \A m \in Members : client[m].mounted
       /\ inbox[c] = <<>> /\ outbox[c] = <<>>
       /\ client[c].resets = 0
       /\ UserTypes(c, OwnChange(c))
  \/ \E s \in Members : ServeJoinRoom(s)
  \/ \E s \in Members : ServeCodeChange(s)
  \/ \E c \in Members : OnSyncState(c)
  \/ \E c \in Members : OnReceiveCode(c)
  \/ \E c \in Members : IsRemoteUpdateTimeout(c)

SpecPair == InitPair /\ [][NextPair]_vars

\* Running code: two Apps join a room, the first one runs its code, and the
\* execution service answers or fails.
RunLines == {<<"42", "">>}

InitRun ==
  /\ InitServer
  /\ wire = {"sync_state", "receive_output"}
  /\ InitClients({"part_000"})

NextRun ==
  \/ \E s \in Sockets : Connect(s) /\ UNCHANGED cvars
  \/ \E c \in Members, id \in JoinKeys : joinRoom(c, id)
  \/ outbox[Writer] = <<>> /\ runCode(Writer)
  \/ \E lines \in RunLines : runCodeResolved(Writer, lines)
  \/ runCodeRejected(Writer)
  \/ \E s \in Members : ServeJoinRoom(s)
  \/ \E s \in Members : ServeOutputChange(s)
  \/ \E c \in Members : OnSyncState(c)
  \/ \E c \in Members : OnReceiveOutput(c)
  \/ \E c \in Members : IsRemoteUpdateTimeout(c)

SpecRun == InitRun /\ [][NextRun]_vars

\* Editing in turns: two Apps join a room and mount their editors; a member
\* types only when both editors are mounted and every message sent so far has
\* been handled.
InitTurns ==
  /\ InitServer
  /\ wire = {"sync_state", "receive_code"}
  /\ InitClients({"part_000"})

NextTurns ==
  \/ \E s \in Sockets : Connect(s) /\ UNCHANGED cvars
  \/ \E c \in Members, id \in JoinKeys : joinRoom(c, id)
  \/ \E c \in Members : handleEditorDidMount(c)
  \/ \E c \in Members, ch \in TypedChanges :
       /\ \A m \in Members : client[m].mounted
       /\ \A m \in Sockets : inbox[m] = <<>> /\ outbox[m] = <<>>
       /\ UserTypes(c, ch)
  \/ \E s \in Members : ServeJoinRoom(s)
  \/ \E s \in Members : ServeCodeChange(s)
  \/ \E c \in Members : OnSyncState(c)
  \/ \E c \in Members : OnReceiveCode(c)
  \/ \E c \in Members : IsRemoteUpdateTimeout(c)

SpecTurns == InitTurns /\ [][NextTurns]_vars

\* Switching language: two Apps join a room and mount their editors, and the
\* first one switches between the languages with two-line templates.
SwitchLanguages == {"javascript", "python"}

InitSwitch ==
  /\ InitServer
  /\ wire = {"sync_state", "receive_language", "receive_code"}
  /\ InitClients({"part_000"})

NextSwitch ==
  \/ \E s \in Sockets : Connect(s) /\ UNCHANGED cvars
  \/ \E c \in Members, id \in JoinKeys : joinRoom(c, id)
  \/ \E c \in Members : handleEditorDidMount(c)
  \/ \E newLang \in SwitchLanguages :
       outbox[Writer] = <<>> /\ handleLanguageChange(Writer, newLang)
  \/ \E s \in Members : ServeJoinRoom(s)
  \/ \E s \in Members : ServeLanguageChange(s)
  \/ \E s \in Members : ServeCodeChange(s)
  \/ \E c \in Members : OnSyncState(c)
  \/ \E c \in Members : OnReceiveLanguage(c)
  \/ \E c \in Members : OnReceiveCode(c)
  \/ \E c \in Members : IsRemoteUpdateTimeout(c)

SpecSwitch == InitSwitch /\ [][NextSwitch]_vars

\* Voice: the Apps join a room and start voice at times of their own; the
\* signalling goes through the server, and members leave.
InitVoice ==
  /\ InitServer
  /\ wire = {"all_users", "user_joined", "receiving_returned_signal", "user_left"}
  /\ InitClients({"part_000"})

NextVoice ==
  \/ \E s \in Sockets : Connect(s) /\ UNCHANGED cvars
  \/ \E c \in Sockets, id \in JoinKeys : joinRoom(c, id)
  \/ \E c \in Sockets : outbox[c] = <<>> /\ startVoice(c)
  \/ \E s \in Sockets : ServeJoinRoom(s)
  \/ \E s \in Sockets : ServeRequestUsers(s)
  \/ \E s \in Sockets : ServeSendingSignal(s)
  \/ \E s \in Sockets : ServeReturningSignal(s)
  \/ \E c \in Sockets : OnAllUsers(c)
  \/ \E c \in Sockets : OnUserJoined(c)
  \/ \E c \in Sockets : OnReceivingReturnedSignal(c)
  \/ \E c \in Sockets : OnUserLeft(c)
  \/ \E s \in Sockets : outbox[s] = <<>> /\ Disconnect(s) /\ UNCHANGED cvars
  \/ DisconnectTimeout /\ UNCHANGED cvars

SpecVoice == InitVoice /\ [][NextVoice]_vars

\* ------------------------------------------------------------ observers
\* The sockets a broadcast of event ev in em reached.
Rcpts(em, ev) == UNION {em[i].rcpt : i \in {j \in 1..Len(em) : em[j].ev = ev}}

\* The payloads of event ev in em that reached socket s.
Payloads(em, ev, s) == {em[i].p : i \in {j \in 1..Len(em) : em[j].ev = ev /\ s \in em[j].rcpt}}

\* Every socket that any broadcast in em reached.
AllRcpts(em) == UNION {em[i].rcpt : i \in 1..Len(em)}

\* The forward the server makes of a client event.
ForwardOf(ev, p) ==
  CASE ev = "code_change" -> [ev |-> "receive_code", p |-> [Blank EXCEPT !.code = p.code, !.delta = p.delta]]
    [] ev = "language_change" -> [ev |-> "receive_language", p |-> [Blank EXCEPT !.language = p.language]]
    [] ev = "output_change" -> [ev |-> "receive_output", p |-> [Blank EXCEPT !.output = p.output]]

\* The text occurs as a line of the content.
HasLine(text, line) == \E i \in 1..Len(text) : text[i] = line

SyncOf(room) == [Blank EXCEPT !.code = room.code, !.language = room.language, !.output = room.output]

\* No disconnect cleanup is pending and no message is on the wire.
Quiet == timers = <<>> /\ \A c \in Sockets : inbox[c] = <<>>

\* Every message of every client and of the server has been handled.
Delivered == \A c \in Sockets : inbox[c] = <<>> /\ outbox[c] = <<>>

\* ----------------------------------------------------------------- claims
\* C1: a code_change for an existing room R sets R's content to the code sent
\* and forwards receive_code {code, delta} to exactly the members of R other
\* than the sender.
C1_CodeChangeForward ==
  (last.ev = "code_change" /\ last.p.roomId \in DOMAIN rooms) =>
    LET R == last.p.roomId
    IN /\ rooms[R].code = last.p.code
       /\ Rcpts(emitted, "receive_code") = adapter[R] \ {last.sock}
       /\ \A c \in adapter[R] \ {last.sock} :
            Payloads(emitted, "receive_code", c) =
              {[Blank EXCEPT !.code = last.p.code, !.delta = last.p.delta]}

\* C2: a join to a room that already has state sends sync_state with exactly
\* that room's stored {content, language, output}, to the joining socket only.
C2_SyncStateToJoinerOnly ==
  [][(last'.ev = "join_room" /\ last'.p.roomId \in DOMAIN rooms) =>
       /\ Payloads(emitted', "sync_state", last'.sock) = {SyncOf(rooms[last'.p.roomId])}
       /\ Rcpts(emitted', "sync_state") = {last'.sock}]_vars

\* C3: when no cleanup is pending and nothing is on the wire, every member of
\* a room holds a user_count equal to the number of live members of that room.
C3_CountEqualsMembership ==
  Quiet => \A r \in PlainKeys : \A c \in adapter[r] : userCount[c] = Cardinality(adapter[r])

\* C4: every connection is a member of at most one joined room, and that room
\* is the one socketRoomMap records for it.
C4_OneRoomPerConnection ==
  \A c \in Sockets :
    /\ Cardinality({r \in Keys \ {c} : c \in adapter[r]}) <= 1
    /\ \A r \in Keys \ {c} :
         c \in adapter[r] => (c \in DOMAIN socketRoomMap /\ socketRoomMap[c] = r)

\* C5: once no cleanup is pending, the store holds an entry for a room key if
\* and only if the room has at least one member.
C5_RoomIffMember ==
  timers = <<>> => \A r \in PlainKeys : (r \in DOMAIN rooms) <=> (adapter[r] # {})

\* C6: the first join to a key without a store entry creates the room with the
\* fixed defaults and the joiner's sync_state carries those defaults; a join to
\* an existing key leaves the store unchanged; no other entry changes.
C6_FirstJoinCreatesDefaults ==
  [][last'.ev = "join_room" =>
       LET R == last'.p.roomId
       IN /\ R \notin DOMAIN rooms =>
               /\ rooms'[R] = [code |-> <<"// Welcome to SyncCode", "// Select a language and start typing...">>,
                               language |-> "javascript",
                               output |-> <<"Ready to execute...">>]
               /\ Payloads(emitted', "sync_state", last'.sock) = {SyncOf(rooms'[R])}
               /\ DOMAIN rooms' = DOMAIN rooms \cup {R}
          /\ R \in DOMAIN rooms => rooms' = rooms
          /\ \A k \in DOMAIN rooms : rooms'[k] = rooms[k]]_vars

\* C6 witness: a join has just created a room with the defaults while another
\* room holds edited state.
C6_Witness ==
  /\ last.ev = "join_room"
  /\ adapter[last.p.roomId] = {last.sock}
  /\ rooms[last.p.roomId] = DefaultRoom
  /\ Payloads(emitted, "sync_state", last.sock) = {SyncOf(DefaultRoom)}
  /\ \E k \in DOMAIN rooms : rooms[k].code # DefaultCode /\ adapter[k] # {}

\* C7: a join to a room key whose membership is zero receives the default
\* state.
C7_RejoinAfterEmptyGetsDefaults ==
  [][(last'.ev = "join_room" /\ adapter[last'.p.roomId] = {}) =>
       Payloads(emitted', "sync_state", last'.sock) = {SyncOf(DefaultRoom)}]_vars

\* C8: an offer with target X is delivered to X and to no other connection.
C8_OfferReachesOnlyTarget ==
  last.ev = "sending_signal" =>
    Rcpts(emitted, "user_joined") =
      (IF status[last.p.userToSignal] = "live" THEN {last.p.userToSignal} ELSE {})

\* C9: an offer or answer whose target has disconnected is delivered to nobody
\* and changes neither the store nor the membership.
C9_AbsentTargetDropped ==
  [][(/\ last'.ev \in {"sending_signal", "returning_signal"}
      /\ status[IF last'.ev = "sending_signal" THEN last'.p.userToSignal ELSE last'.p.callerID] = "closed") =>
       /\ AllRcpts(emitted') = {}
       /\ rooms' = rooms
       /\ adapter' = adapter
       /\ socketRoomMap' = socketRoomMap
       /\ status' = status]_vars

\* C10: the callerID of a delivered user_joined is the id of the socket that
\* sent the offer.
C10_CallerIsSender ==
  last.ev = "sending_signal" =>
    \A c \in Rcpts(emitted, "user_joined") :
      \A p \in Payloads(emitted, "user_joined", c) : p.callerID = last.sock

\* C11: an answer relayed by B with target A is delivered to A and to no
\* other connection, and every delivered copy carries B's socket id.
C11_AnswerReachesOnlyCaller ==
  last.ev = "returning_signal" =>
    /\ Rcpts(emitted, "receiving_returned_signal") =
         (IF status[last.p.callerID] = "live" THEN {last.p.callerID} ELSE {})
    /\ \A c \in Rcpts(emitted, "receiving_returned_signal") :
         \A p \in Payloads(emitted, "receiving_returned_signal", c) : p.id = last.sock

\* C12: a peer-list request for room R by connection C is answered to C and
\* to nobody else, with exactly one all_users message whose list is the set of
\* current members of R without C.
C12_PeerListIsOtherMembers ==
  last.ev = "request_users" =>
    LET R == last.p.roomId
        C == last.sock
    IN /\ AllRcpts(emitted) = {C}
       /\ Len(emitted) = 1
       /\ Payloads(emitted, "all_users", C) = {[Blank EXCEPT !.users = adapter[R] \ {C}]}
       /\ \A p \in Payloads(emitted, "all_users", C) :
            /\ C \notin p.users
            /\ p.users \subseteq adapter[R]
            /\ adapter[R] \ {C} \subseteq p.users

\* C12 witness: a member of a room with another member has just asked for the
\* peer list and was sent a list naming the other member.
C12_Witness ==
  /\ last.ev = "request_users"
  /\ last.sock \in adapter[last.p.roomId]
  /\ \E p \in Payloads(emitted, "all_users", last.sock) :
       p.users # {} /\ p.users = adapter[last.p.roomId] \ {last.sock}

\* C13: when A disconnects, every connection B that A leaves behind in a room
\* has the notification of A's departure scheduled for a room B is in; when
\* the notification runs for a room that still has members, each of them is
\* sent the room's member count and user_left with A's id, A is sent nothing,
\* and the room's entry stays in the store.
C13_RemainingMembersNotified ==
  [][/\ last'.ev = "disconnect" =>
          \A r \in PlainKeys : \A B \in adapter[r] \ {last'.sock} :
            last'.sock \in adapter[r] =>
              \E i \in DOMAIN timers' :
                /\ timers'[i].sock = last'.sock
                /\ B \in adapter[timers'[i].roomId]
     /\ (last'.ev = "disconnect_timeout" /\ adapter[last'.p.roomId] # {}) =>
          LET A == last'.sock
              R == last'.p.roomId
          IN /\ \A B \in adapter[R] :
                  /\ Payloads(emitted', "user_count", B) =
                       {[Blank EXCEPT !.count = Cardinality(adapter[R])]}
                  /\ Payloads(emitted', "user_left", B) = {[Blank EXCEPT !.id = A]}
             /\ A \notin AllRcpts(emitted')
             /\ R \in DOMAIN rooms => R \in DOMAIN rooms']_vars

\* C14: the disconnect of a connection that is in no room schedules no
\* notification, sends nothing and leaves the store as it was; a disconnect
\* handled again for a connection already closed changes nothing at all.
C14_DisconnectIdempotent ==
  [][last'.ev = "disconnect" =>
       LET s == last'.sock
       IN /\ (\A r \in PlainKeys : s \notin adapter[r]) =>
               /\ AllRcpts(emitted') = {}
               /\ timers' = timers
               /\ rooms' = rooms
               /\ socketRoomMap' = socketRoomMap
          /\ status[s] = "closed" =>
               /\ AllRcpts(emitted') = {}
               /\ timers' = timers
               /\ rooms' = rooms
               /\ socketRoomMap' = socketRoomMap
               /\ adapter' = adapter
               /\ status' = status
               /\ inbox' = inbox]_vars

\* C14 witness: a disconnect has just been handled with no notification
\* pending, for a connection that had joined, while a room with a member and
\* a store entry exists.
C14_Witness ==
  /\ last.ev = "disconnect"
  /\ status[last.sock] = "closed"
  /\ timers = <<>>
  /\ \E r \in PlainKeys : rooms # <<>> /\ r \in DOMAIN rooms /\ adapter[r] # {}
  /\ \E r \in PlainKeys : r \in DOMAIN rooms /\ adapter[r] = {}

\* C15: a room without members keeps its store entry only while a cleanup is
\* still pending; with no cleanup pending, only a new join could bring a
\* cleanup for it, so an entry left then is never removed.
C15_EmptyRoomRemoved ==
  \A r \in PlainKeys :
    (adapter[r] = {} /\ r \in DOMAIN rooms) => timers # <<>>

\* C16: a code_change, language_change or output_change that names a room key
\* without a store entry creates no room, changes no room, forwards nothing
\* and leaves the sender connected and its membership as it was.
C16_UnknownRoomIsNoOp ==
  [][(/\ last'.ev \in {"code_change", "language_change", "output_change"}
      /\ last'.p.roomId \notin DOMAIN rooms) =>
       /\ rooms' = rooms
       /\ AllRcpts(emitted') = {}
       /\ inbox' = inbox
       /\ status' = status
       /\ status'[last'.sock] = "live"
       /\ adapter' = adapter
       /\ socketRoomMap' = socketRoomMap
       /\ timers' = timers]_vars

\* C16 witness: a code_change for a key without an entry has just been
\* handled while another room, with a member, has an entry.
C16_Witness ==
  /\ last.ev = "code_change"
  /\ last.p.roomId \notin DOMAIN rooms
  /\ emitted = <<>>
  /\ \E r \in DOMAIN rooms : adapter[r] # {}

\* C17: the handling of a sync_state or of a receive_code, with or without a
\* delta, puts no message of the receiving client on the wire, whatever it
\* does to the buffer.
C17_RemoteApplyNotReEmitted ==
  [][last'.ev \in {"sync_state", "receive_code"} => outbox' = outbox]_vars

\* C17 witness: a mounted client has just applied a forwarded delta to its
\* buffer, which now differs from the content the delta came with, and has
\* nothing on the wire.
C17_Witness ==
  /\ last.ev = "receive_code"
  /\ last.p.delta.present
  /\ client[last.sock].mounted
  /\ client[last.sock].buffer = <<"x">> \o DefaultCode
  /\ client[last.sock].code = client[last.sock].buffer
  /\ outbox[last.sock] = <<>>

\* C18: every edit the user makes in the editor puts one code_change with the
\* edited buffer on the wire; between handlers no remote apply is executing,
\* so no edit finds the echo-suppression flag set.
C18_LocalEditEmitted ==
  [][last'.ev = "type" =>
       LET c == last'.sock
       IN /\ Len(outbox'[c]) = Len(outbox[c]) + 1
          /\ outbox'[c][Len(outbox'[c])].ev = "code_change"
          /\ outbox'[c][Len(outbox'[c])].p.code = last'.p.code]_vars

\* C19: a mounted client that handles a receive_code with a delta changes only
\* the lines the delta names and keeps the lines before and after them; with
\* no delta its buffer and its code become the forwarded content; the server
\* stores and forwards a code_change without a delta like any other.
C19_DeltaOrFullReplace ==
  [][/\ (last'.ev = "receive_code" /\ client[last'.sock].mounted) =>
          LET c == last'.sock
              old == client[c].buffer
              new == client'[c].buffer
          IN IF last'.p.delta.present
             THEN \A i \in DOMAIN last'.p.delta.changes :
                    LET ch == last'.p.delta.changes[i]
                    IN (Len(last'.p.delta.changes) = 1 /\ ch.to <= Len(old) + 1) =>
                         /\ Len(new) = Len(old) - (ch.to - ch.from) + Len(ch.text)
                         /\ SubSeq(new, 1, ch.from - 1) = SubSeq(old, 1, ch.from - 1)
                         /\ SubSeq(new, ch.from, ch.from + Len(ch.text) - 1) = ch.text
                         /\ SubSeq(new, ch.from + Len(ch.text), Len(new)) = SubSeq(old, ch.to, Len(old))
             ELSE /\ new = last'.p.code
                  /\ client'[c].code = last'.p.code
     /\ (/\ last'.ev = "code_change"
         /\ ~last'.p.delta.present
         /\ last'.p.roomId \in DOMAIN rooms) =>
          /\ rooms'[last'.p.roomId].code = last'.p.code
          /\ \A c \in SocketTo(adapter, last'.sock, last'.p.roomId) :
               Payloads(emitted', "receive_code", c) =
                 {[Blank EXCEPT !.code = last'.p.code, !.delta = NullDelta]}]_vars

\* C19 witness: a mounted client has just handled a receive_code without a
\* delta and its buffer is the forwarded content.
C19_Witness ==
  /\ last.ev = "receive_code"
  /\ ~last.p.delta.present
  /\ client[last.sock].mounted
  /\ last.p.code # <<>>
  /\ client[last.sock].buffer = last.p.code
  /\ client[last.sock].isRemoteUpdate

\* C20: once everything is delivered, if a member of a room shows the empty
\* output (it cleared, or was sent a clear), then the room's stored output
\* and the output of every member of the room are empty too.
C20_ClearConverges ==
  Delivered =>
    \A r \in JoinKeys :
      (\E c \in adapter[r] : client[c].output = <<>>) =>
        /\ r \in DOMAIN rooms
        /\ rooms[r].output = <<>>
        /\ \A m \in adapter[r] : client[m].output = <<>>

\* C21: when the server handles an edit, a language change or an output change
\* for a room, its forward is put behind everything already on the wire to
\* each recipient, and a client always takes the oldest message on its wire;
\* so forwards reach every receiver in the order the server received them.
C21_ForwardsInReceiptOrder ==
  [][\A c \in Sockets :
       \/ inbox'[c] = inbox[c]
       \/ /\ last'.ev \in {"code_change", "language_change", "output_change"}
          /\ c \in SocketTo(adapter, last'.sock, last'.p.roomId)
          /\ inbox'[c] = Append(inbox[c], ForwardOf(last'.ev, last'.p))
       \/ /\ last'.sock = c
          /\ inbox[c] # <<>>
          /\ last'.ev = Head(inbox[c]).ev
          /\ last'.p = Head(inbox[c]).p
          /\ inbox'[c] = Tail(inbox[c])]_vars

\* C21 witness: a member has two forwards of different events on its wire,
\* the one the server received last behind the other.
C21_Witness ==
  \E c \in Sockets :
    /\ Len(inbox[c]) = 2
    /\ inbox[c][1].ev # inbox[c][2].ev
    /\ last.ev \in {"code_change", "language_change", "output_change"}
    /\ inbox[c][2] = ForwardOf(last.ev, last.p)

\* C22: while a room exists its stored content is the full content of the
\* code_change the server received last for it: a code_change writes its whole
\* content over the stored one, no other step changes the stored content, and
\* a connection that joins is sent the stored content as it is.
C22_LastWriteWins ==
  [][/\ \A r \in DOMAIN rooms \cap DOMAIN rooms' :
          IF last'.ev = "code_change" /\ last'.p.roomId = r
          THEN rooms'[r].code = last'.p.code
          ELSE rooms'[r].code = rooms[r].code
     /\ (last'.ev = "join_room" /\ last'.p.roomId \in DOMAIN rooms) =>
          \A p \in Payloads(emitted', "sync_state", last'.sock) :
            p.code = rooms[last'.p.roomId].code]_vars

\* C22 witness: two edits with different contents were forwarded to a member,
\* and the connection that joins after them is sent the content of the second.
C22_Witness ==
  \E c \in Sockets, r \in DOMAIN rooms :
    /\ Len(inbox[c]) = 2
    /\ inbox[c][1].ev = "receive_code" /\ inbox[c][2].ev = "receive_code"
    /\ inbox[c][1].p.code # inbox[c][2].p.code
    /\ rooms[r].code = inbox[c][2].p.code
    /\ last.ev = "join_room" /\ last.p.roomId = r /\ last.sock # c
    /\ Payloads(emitted, "sync_state", last.sock) = {SyncOf(rooms[r])}

\* C23: once the reader has handled a forwarded edit with its editor mounted,
\* its buffer is the full content that came with the edit, whatever earlier
\* edits of the writer it did not get.
C23_SnapshotRecoversMissedEdit ==
  (last.ev = "receive_code" /\ last.sock = Reader /\ client[Reader].mounted)
    => client[Reader].buffer = last.p.code

\* C24: the cleanup of a closing connection is complete before the server
\* handles anything else: while a cleanup is pending, the only step the server
\* takes is that cleanup.
C24_CleanupBeforeNextEvent ==
  [][timers # <<>> => last'.ev = "disconnect_timeout"]_vars

\* C27: when the request to the execution service fails, the requester's
\* output becomes the one line "Error executing code.", its running indicator
\* is false again, no new request is posted, no message is sent to the server,
\* and the connections, the memberships and the room store stay as they were.
C27_RunFailureStaysLocal ==
  [][last'.ev = "runCodeRejected" =>
       LET c == last'.sock
       IN /\ client'[c].output = <<"Error executing code.">>
          /\ ~client'[c].isRunning
          /\ ~client'[c].request
          /\ outbox' = outbox
          /\ inbox' = inbox
          /\ \A d \in Sockets \ {c} : client'[d] = client[d]
          /\ <<status, adapter, rooms, socketRoomMap, timers>>' =
               <<status, adapter, rooms, socketRoomMap, timers>>]_vars

\* C27 witness: the request of a member has just failed while the room, with
\* both members in it, holds the "Running..." output the run had sent.
C27_Witness ==
  /\ last.ev = "runCodeRejected"
  /\ client[last.sock].output = <<"Error executing code.">>
  /\ \E r \in DOMAIN rooms :
       /\ adapter[r] = Members
       /\ rooms[r].output = <<"Running...">>

\* C28: the language of every room in the store is javascript, python or java.
C28_LanguageInEnumeration ==
  \A r \in DOMAIN rooms : rooms[r].language \in Languages

\* C29: a code_change, language_change or output_change for an existing room
\* writes the field it names and no other field of the room, leaves every
\* other room, every membership and every pending cleanup as they were, and
\* sends one kind of forward: receive_code with the content and the delta,
\* receive_language with the language alone, receive_output with the output
\* alone.
C29_EditWritesOwnFieldOnly ==
  [][(/\ last'.ev \in {"code_change", "language_change", "output_change"}
      /\ last'.p.roomId \in DOMAIN rooms) =>
       LET R == last'.p.roomId
           p == last'.p
           fwd == ForwardOf(last'.ev, p)
       IN /\ DOMAIN rooms' = DOMAIN rooms
          /\ \A r \in DOMAIN rooms \ {R} : rooms'[r] = rooms[r]
          /\ rooms'[R] =
               CASE last'.ev = "code_change" -> [rooms[R] EXCEPT !.code = p.code]
                 [] last'.ev = "language_change" -> [rooms[R] EXCEPT !.language = p.language]
                 [] last'.ev = "output_change" -> [rooms[R] EXCEPT !.output = p.output]
          /\ \A i \in 1..Len(emitted') :
               emitted'[i].ev = fwd.ev /\ emitted'[i].p = fwd.p
          /\ adapter' = adapter
          /\ socketRoomMap' = socketRoomMap
          /\ status' = status
          /\ timers' = timers]_vars

\* C29 witness: a language_change has just been forwarded to a member of a
\* room whose content and output had been edited before, while another room
\* still holds its own state.
C29_Witness ==
  /\ last.ev = "language_change"
  /\ last.p.roomId \in DOMAIN rooms
  /\ Rcpts(emitted, "receive_language") # {}
  /\ rooms[last.p.roomId].code # DefaultCode
  /\ rooms[last.p.roomId].output # DefaultOutput
  /\ \E r \in DOMAIN rooms \ {last.p.roomId} : rooms[r] = DefaultRoom

\* C26: when each of two members has typed its line and every message has
\* been handled, both lines are in both members' buffers and in the content
\* the room stores for later joiners.
C26_BothEditsKept ==
  (/\ Delivered
   /\ HasLine(client[Writer].buffer, "x")
   /\ HasLine(client[Reader].buffer, "y"))
    => /\ \A m \in Members :
            HasLine(client[m].buffer, "x") /\ HasLine(client[m].buffer, "y")
       /\ \A r \in JoinKeys :
            r \in DOMAIN rooms /\ HasLine(rooms[r].code, "x") /\ HasLine(rooms[r].code, "y")

\* C25: when the members edit in turns, each after the forward of the edit
\* before has been delivered, then once a forward has been handled and nothing
\* is on the wire every member's buffer is the content the forward carried,
\* which is the content the room stores.
C25_TurnsKeepBuffersEqual ==
  (/\ last.ev = "receive_code"
   /\ Delivered
   /\ \A m \in Members : client[m].mounted
   /\ \A r \in JoinKeys : adapter[r] = Members)
    => \A r \in JoinKeys, m \in Members :
         /\ rooms[r].code = last.p.code
         /\ client[m].buffer = rooms[r].code

\* C30: once a member's language switch has been handled by the server and
\* every message has been delivered, the room stores the new language and its
\* template, and the other member shows that language and has that template
\* in its editor.
C30_SwitchReachesEveryMember ==
  \A r \in JoinKeys :
    (/\ Delivered
     /\ r \in DOMAIN rooms
     /\ rooms[r].code # DefaultCode
     /\ adapter[r] = Members
     /\ client[Reader].mounted)
      => /\ rooms[r].code = Template(rooms[r].language)
         /\ client[Reader].language = rooms[r].language
         /\ client[Reader].buffer = rooms[r].code

\* C34: a code_change, language_change or output_change naming a room of which
\* the sender is not a member changes nothing in the store and is forwarded
\* to nobody.
C34_OnlyMembersEdit ==
  [][(/\ last'.ev \in {"code_change", "language_change", "output_change"}
      /\ last'.sock \notin adapter[last'.p.roomId]) =>
       /\ rooms' = rooms
       /\ AllRcpts(emitted') = {}]_vars

\* C33: after every step each room with a member has a store entry; a store
\* entry disappears only in a disconnect cleanup that finds the room without
\* members; and an edit, language change or output change that a member sends
\* for its room is written to the store.
C33_MemberRoomsHaveEntries ==
  [][/\ \A r \in PlainKeys : adapter'[r] # {} => r \in DOMAIN rooms'
     /\ \A r \in DOMAIN rooms \ DOMAIN rooms' :
          last'.ev = "disconnect_timeout" /\ adapter[r] = {}
     /\ (/\ last'.ev \in {"code_change", "language_change", "output_change"}
         /\ last'.sock \in adapter[last'.p.roomId]) =>
          /\ last'.p.roomId \in DOMAIN rooms'
          /\ LET room == rooms'[last'.p.roomId]
             IN CASE last'.ev = "code_change" -> room.code = last'.p.code
                  [] last'.ev = "language_change" -> room.language = last'.p.language
                  [] last'.ev = "output_change" -> room.output = last'.p.output]_vars

\* C33 witness: the cleanup of a connection that left a room has just fired
\* while another connection is a member of that room, and the room's entry,
\* holding an edit, is still in the store.
C33_Witness ==
  /\ last.ev = "disconnect_timeout"
  /\ status[last.sock] = "closed"
  /\ adapter[last.p.roomId] # {}
  /\ last.p.roomId \in DOMAIN rooms
  /\ rooms[last.p.roomId].code # DefaultCode

\* C31: once a client has handled user_left for an id, its peer list has no
\* entry for the id, no peer it had created for the id is left alive, and the
\* entries for the other ids are the ones it had, in the same order.
C31_UserLeftTearsDown ==
  [][last'.ev = "user_left" =>
       LET c == last'.sock
           id == last'.p.id
           Other(e) == e.peerID # id
       IN /\ \A i \in 1..Len(client'[c].peersRef) : client'[c].peersRef[i].peerID # id
          /\ \A i \in 1..Len(client'[c].undestroyed) : client'[c].undestroyed[i].peerID # id
          /\ SelectSeq(client'[c].peersRef, Other) = SelectSeq(client[c].peersRef, Other)]_vars

\* C32: when every message has been handled and no cleanup is pending, no
\* peer a client created as initiator is still waiting for its answer.
C32_NoOfferLeftWaiting ==
  (Delivered /\ timers = <<>>) =>
    \A c \in Sockets :
      status[c] = "live" =>
        \A i \in 1..Len(client[c].peersRef) :
          client[c].peersRef[i].initiator => client[c].peersRef[i].signalled

\* C35: a client's peer list never holds two entries with the same peerID.
C35_OneEntryPerPeer ==
  \A c \in Sockets :
    \A i, j \in 1..Len(client[c].peersRef) :
      client[c].peersRef[i].peerID = client[c].peersRef[j].peerID => i = j

\* C36: when a member's run has finished and every message has been handled,
\* the running client, the other member and the store hold the same output,
\* and it is not the "Running..." line.
C36_RunOutputConverges ==
  \A r \in JoinKeys :
    (/\ Delivered
     /\ adapter[r] = Members
     /\ r \in DOMAIN rooms
     /\ rooms[r].output # DefaultOutput
     /\ ~client[Writer].isRunning)
      => /\ client[Writer].output = rooms[r].output
         /\ client[Reader].output = rooms[r].output
         /\ rooms[r].output # <<"Running...">>

TypeOK ==
  /\ status \in [Sockets -> {"new", "live", "closed"}]
  /\ \A k \in Keys : adapter[k] \subseteq Sockets
  /\ DOMAIN rooms \subseteq Keys
  /\ DOMAIN socketRoomMap \subseteq Sockets
  /\ Len(timers) <= MaxTimers
  /\ \A c \in Sockets : Len(inbox[c]) <= MaxInbox
====
